---- MODULE Spec2Model ----
(***************************************************************************)
(* A model of darwin/dataset/remote_dataset_v2.py: the lazy, cursor-driven *)
(* listing of RemoteDatasetV2.fetch_remote_files (a Python generator), the *)
(* filter/sort normalisation it performs on its first resumption, the     *)
(* five batch commands archive, restore_archived, move_to_new, reset and   *)
(* delete_items, and push.                                                 *)
(***************************************************************************)
EXTENDS Integers, Sequences, FiniteSets, TLC

VARIABLES
    dataset_id,    \* self.dataset_id
    filters,       \* the dict object the caller passed as `filters`
    filters0,      \* history: the content of that dict when the call was made
    sort,          \* the `sort` argument of the call
    pc,            \* where the generator is
    post_filters,  \* generator local
    post_sort,     \* generator local
    cursor,        \* generator local
    response,      \* generator local: the response of the last fetch_items
    buffer,        \* the list built on line 235 that `yield from` walks
    idx,           \* how many elements of buffer have been yielded
    requests,      \* history: the calls of client.api_v2.fetch_items
    responses,     \* history: what the server answered to each of them
    out,           \* history: what each next() of the consumer produced
    pulls,         \* history: how many times the consumer called next()
    sent,          \* history: the batch command requests issued
    calls,         \* history: how many batch command calls returned
    parked,        \* the frame of the other generator of a two-run program
    active,        \* which of the two generators the listing variables hold
    shared,        \* whether both calls were given the same dict object
    drain,         \* the batch command that is consuming the generator
    pushed         \* history: what the call of push did

vars == <<dataset_id, filters, filters0, sort, pc, post_filters, post_sort,
          cursor, response, buffer, idx, requests, responses, out, pulls,
          sent, calls, parked, active, shared, drain, pushed>>

\* what no step of a generator touches
outsideRun == <<sent, calls, parked, active, shared, drain, pushed>>

(***************************************************************************)
(* Bounds of the model.                                                    *)
(***************************************************************************)
MaxRequests == 3     \* listing requests in one run
MaxPageLen == 2      \* items in one page of the model's server
MaxExtraPulls == 1   \* next() calls on a generator that has finished
MaxCommands == 2     \* batch commands in one behaviour
MaxItems == 2        \* items handed to one batch command
MaxFiles == 2

(***************************************************************************)
(* Python values.  Every value is a record of the same shape, so that two  *)
(* values of different Python types can be compared.                       *)
(***************************************************************************)
NoneV == [kind |-> "none", s |-> "", l |-> <<>>, n |-> 0]
StrV(s) == [kind |-> "str", s |-> s, l |-> <<>>, n |-> 0]
IntV(n) == [kind |-> "int", s |-> "", l |-> <<>>, n |-> n]
ListV(l) == [kind |-> "list", s |-> "", l |-> l, n |-> 0]

\* an ItemSorter instance with its field and its direction code
SorterV(field, direction) ==
    [kind |-> "sorter", s |-> field, l |-> <<direction>>, n |-> 0]

\* bool(v): None, "", 0 and [] are falsy, a plain object is truthy
Truthy(v) ==
    CASE v.kind = "none" -> FALSE
      [] v.kind = "str" -> v.s # ""
      [] v.kind = "int" -> v.n # 0
      [] v.kind = "list" -> v.l # <<>>
      [] v.kind = "sorter" -> TRUE

\* ", ".join(repr(x) for x in l) for a list of str
RECURSIVE JoinRepr(_)
JoinRepr(l) ==
    IF l = <<>> THEN ""
    ELSE IF Len(l) = 1 THEN "'" \o Head(l) \o "'"
    ELSE "'" \o Head(l) \o "', " \o JoinRepr(Tail(l))

\* str(v)
PyStr(v) ==
    CASE v.kind = "none" -> "None"
      [] v.kind = "str" -> v.s
      [] v.kind = "int" -> ToString(v.n)
      [] v.kind = "list" -> "[" \o JoinRepr(v.l) \o "]"

\* a dict is a function from its keys; {**a, **b}: b's entries win
EmptyDict == <<>>
Merge(a, b) == b @@ a
SetItem(d, k, v) == (k :> v) @@ d
Has(d, k) == k \in DOMAIN d
TruthyDict(d) == DOMAIN d # {}

\* Optional[Dict]: the argument is None or a dict
NoDict == [none |-> TRUE, d |-> EmptyDict]
SomeDict(d) == [none |-> FALSE, d |-> d]

(***************************************************************************)
(* The object and its collaborators.                                       *)
(***************************************************************************)
DatasetIds == {11, 12}
Team == "team-slug"
Slug == "dataset-slug"
PageSize == 500

\* the inputs of a fetch_remote_files call
FilterKeys == {"filenames", "item_names", "statuses", "path", "types", "archived"}
FilterValues == {StrV("a"), ListV(<<"b", "c">>)}
\* the empty mapping, and every mapping with one key or a pair of keys
FilterKeySets == {{}} \cup {{a, b} : a, b \in FilterKeys}
FilterDicts == UNION {[K -> FilterValues] : K \in FilterKeySets}
FilterInputs == {NoDict} \cup {SomeDict(d) : d \in FilterDicts}
SortInputs ==
    {NoneV, StrV(""), StrV("bogus"), StrV("priority:descending"),
     SorterV("name", "asc")}

\* what the k-th page of the listing endpoint may declare as page.next: null,
\* an empty token, or a token of its own
NextTokens(k) == {NoneV, StrV(""), StrV("t" \o ToString(k))}

\* the items of the k-th page the server serves, n of them
RawItems(k, n) == [j \in 1..n |-> [id |-> 10 * k + j, name |-> "file"]]

\* DatasetItem.parse
NoItem == [id |-> 0, filename |-> ""]
ParseItem(raw) == [id |-> raw.id, filename |-> raw.name]

\* ItemSorter.parse: the sort strings that resolve, and what they resolve to
SortTable ==
    "priority:descending" :> [field |-> "priority", direction |-> "desc"]
SortResolves(v) ==
    \/ v.kind = "sorter"
    \/ v.kind = "str" /\ v.s \in DOMAIN SortTable
ParseSort(v) ==
    IF v.kind = "sorter" THEN [field |-> v.s, direction |-> v.l[1]]
    ELSE SortTable[v.s]

\* what a next() of the consumer produces
Yielded(item) == [kind |-> "item", item |-> item, exc |-> ""]
Stopped == [kind |-> "stop", item |-> NoItem, exc |-> ""]
Raised(exc) == [kind |-> "raise", item |-> NoItem, exc |-> exc]

(***************************************************************************)
(* fetch_remote_files, lines 210-231: what the first next() runs before    *)
(* the loop.                                                               *)
(***************************************************************************)
\* the alias fills item_names in only when the caller gave none
AliasFilters_unlessPresent(f) ==
    IF ~f.none /\ TruthyDict(f.d) /\ Has(f.d, "filenames")
       /\ ~Has(f.d, "item_names")
    THEN SomeDict(SetItem(f.d, "item_names", f.d["filenames"]))
    ELSE f

\* lines 213-216: the caller's dict after the v1 compatibility assignment
AliasFilters(f) ==
    IF ~f.none /\ TruthyDict(f.d) /\ Has(f.d, "filenames")
    THEN SomeDict(SetItem(f.d, "item_names", f.d["filenames"]))
    ELSE f

\* a scalar is wrapped in a one-element list
ListOrStr_wrap(v) == IF v.kind = "list" THEN v ELSE ListV(<<PyStr(v)>>)

\* lines 219-222: a list is kept, anything else becomes its str()
ListOrStr(v) == IF v.kind = "list" THEN v ELSE StrV(PyStr(v))

\* every key of the dict is passed on
PostFilters_passAll(f) ==
    IF f.none \/ ~TruthyDict(f.d) THEN EmptyDict
    ELSE [k \in DOMAIN f.d |->
            IF k \in {"item_names", "statuses"} THEN ListOrStr(f.d[k])
            ELSE StrV(PyStr(f.d[k]))]

\* lines 217-226, on the dict as it is after line 216
PostFilters(f) ==
    IF f.none \/ ~TruthyDict(f.d) THEN EmptyDict
    ELSE LET lists == [k \in {"item_names", "statuses"} \cap DOMAIN f.d
                          |-> ListOrStr(f.d[k])]
             strs == [k \in {"path", "types"} \cap DOMAIN f.d
                          |-> StrV(PyStr(f.d[k]))]
         IN  Merge(lists, strs)

\* lines 228-230, for a sort that ItemSorter.parse accepts
SortKey(field) == "sort[" \o field \o "]"
PostSort(s) ==
    IF Truthy(s)
    THEN LET item_sorter == ParseSort(s)
         IN  SortKey(item_sorter.field) :> StrV(item_sorter.direction)
    ELSE EmptyDict

\* line 228-229: the sort is parsed, and the parse raises
SortRaises(s) == Truthy(s) /\ ~SortResolves(s)

\* line 231
InitialCursor == "page[size]" :> IntV(PageSize)

\* line 233
MergedCursor(pf, ps, c) == Merge(Merge(pf, ps), c)

\* the list loses its last element
PageItems_dropLast(resp) ==
    [i \in 1..(Len(resp.items) - 1) |-> ParseItem(resp.items[i])]

\* line 235: the list that `yield from` walks
PageItems(resp) == [i \in 1..Len(resp.items) |-> ParseItem(resp.items[i])]

\* the page is left one element early
MoreToYield_early(buf, i) == i + 1 < Len(buf)

\* line 235: `yield from` has another element to yield after i of them
MoreToYield(buf, i) == i < Len(buf)

\* the loop also stops on a page that came back empty
HasNext_unlessEmptyPage(resp) == Truthy(resp.next) /\ resp.items # <<>>

\* the loop goes round whatever the token is
HasNext_evenWhenNull(resp) == TRUE

\* line 237
HasNext(resp) == Truthy(resp.next)

NoResponse == [items |-> <<>>, next |-> NoneV]

\* the frame of a generator that has not been created
NoRun ==
    [filters |-> NoDict, filters0 |-> NoDict, sort |-> NoneV, pc |-> "none",
     post_filters |-> EmptyDict, post_sort |-> EmptyDict, cursor |-> EmptyDict,
     response |-> NoResponse, buffer |-> <<>>, idx |-> 0, requests |-> <<>>,
     responses |-> <<>>, out |-> <<>>, pulls |-> 0]

\* history of a call of push: its arguments, the calls of find_files, the
\* handlers created with their file lists, the calls of prepare_upload and
\* of upload on the handler, and how the call ended
NotPushed ==
    [state |-> "none", exc |-> "", args |-> <<>>, scans |-> <<>>,
     handlers |-> <<>>, prepares |-> 0, uploads |-> <<>>,
     upload_state |-> "none"]

\* a RemoteDatasetV2 has been constructed and nothing has been called yet
Constructed ==
    /\ dataset_id \in DatasetIds
    /\ filters = NoDict
    /\ filters0 = NoDict
    /\ sort = NoneV
    /\ pc = "none"
    /\ post_filters = EmptyDict
    /\ post_sort = EmptyDict
    /\ cursor = EmptyDict
    /\ response = NoResponse
    /\ buffer = <<>>
    /\ idx = 0
    /\ requests = <<>>
    /\ responses = <<>>
    /\ out = <<>>
    /\ pulls = 0
    /\ sent = <<>>
    /\ calls = 0
    /\ parked = NoRun
    /\ active = 1
    /\ shared = FALSE
    /\ drain = "none"
    /\ pushed = NotPushed

\* the listing is followed on one dataset
Init == Constructed /\ dataset_id = 11

\* fetch_remote_files(filters, sort) is called: a generator is created and
\* none of its body runs
Call(f, s) ==
    /\ pc = "none"
    /\ filters' = f
    /\ filters0' = f
    /\ sort' = s
    /\ pc' = "created"
    /\ UNCHANGED <<dataset_id, post_filters, post_sort, cursor, response,
                   buffer, idx, requests, responses, out, pulls, outsideRun>>

\* the first next(): lines 210-231, up to the first fetch_items call, or the
\* ValueError of ItemSorter.parse
NextFirst ==
    /\ pc = "created"
    /\ pulls' = pulls + 1
    /\ filters' = AliasFilters(filters)
    /\ post_filters' = PostFilters(AliasFilters(filters))
    /\ IF SortRaises(sort)
       THEN /\ pc' = "failed"
            /\ out' = Append(out, Raised("ValueError"))
            /\ UNCHANGED <<post_sort, cursor>>
       ELSE /\ post_sort' = PostSort(sort)
            /\ cursor' = InitialCursor
            /\ pc' = "fetching"
            /\ out' = out
    /\ UNCHANGED <<dataset_id, filters0, sort, response, buffer, idx,
                   requests, responses, outsideRun>>

\* the token of the first page is kept for every later request
AfterPage_keepsFirstToken(resp, cur) ==
    IF HasNext(resp)
    THEN /\ cursor' = IF Has(cur, "page[from]")
                      THEN cur
                      ELSE SetItem(cur, "page[from]", resp.next)
         /\ pc' = "fetching"
         /\ out' = out
    ELSE /\ cursor' = cur
         /\ pc' = "done"
         /\ out' = Append(out, Stopped)

\* lines 237-240, reached when the page's list is used up: the loop goes
\* round to the next fetch_items call, or the generator returns
AfterPage(resp, cur) ==
    IF HasNext(resp)
    THEN /\ cursor' = SetItem(cur, "page[from]", resp.next)
         /\ pc' = "fetching"
         /\ out' = out
    ELSE /\ cursor' = cur
         /\ pc' = "done"
         /\ out' = Append(out, Stopped)

Request(cur) == [dataset_id |-> dataset_id, params |-> cur, team_slug |-> Team]

\* lines 233-235 (and 237-240 for an empty page): the request is issued and
\* answered with n items and the token nx
FetchOk(n, nx) ==
    /\ pc = "fetching"
    /\ Len(requests) < MaxRequests
    /\ LET cur == MergedCursor(post_filters, post_sort, cursor)
           resp == [items |-> RawItems(Len(requests) + 1, n), next |-> nx]
           parsed == PageItems(resp)
       IN  /\ requests' = Append(requests, Request(cur))
           /\ responses' = Append(responses, [ok |-> TRUE, items |-> resp.items,
                                              next |-> resp.next])
           /\ response' = resp
           /\ buffer' = parsed
           /\ IF parsed # <<>>
              THEN /\ out' = Append(out, Yielded(parsed[1]))
                   /\ idx' = 1
                   /\ pc' = "suspended"
                   /\ cursor' = cur
              ELSE /\ idx' = 0
                   /\ AfterPage(resp, cur)
    /\ UNCHANGED <<dataset_id, filters, filters0, sort, post_filters,
                   post_sort, pulls, outsideRun>>

\* the error is swallowed and the same request is made again
FetchError_retry ==
    /\ pc = "fetching"
    /\ Len(requests) < MaxRequests
    /\ LET cur == MergedCursor(post_filters, post_sort, cursor)
       IN  /\ requests' = Append(requests, Request(cur))
           /\ cursor' = cur
    /\ responses' = Append(responses, [ok |-> FALSE, items |-> <<>>,
                                       next |-> NoneV])
    /\ UNCHANGED <<dataset_id, filters, filters0, sort, pc, post_filters,
                   post_sort, response, buffer, idx, out, pulls, outsideRun>>

\* lines 233-234: the request is issued and fetch_items raises
FetchError ==
    /\ pc = "fetching"
    /\ Len(requests) < MaxRequests
    /\ LET cur == MergedCursor(post_filters, post_sort, cursor)
       IN  /\ requests' = Append(requests, Request(cur))
           /\ cursor' = cur
    /\ responses' = Append(responses, [ok |-> FALSE, items |-> <<>>,
                                       next |-> NoneV])
    /\ pc' = "failed"
    /\ out' = Append(out, Raised("TransportError"))
    /\ UNCHANGED <<dataset_id, filters, filters0, sort, post_filters,
                   post_sort, response, buffer, idx, pulls, outsideRun>>

\* a later next(): the generator resumes inside `yield from` on line 235
NextResume ==
    /\ pc = "suspended"
    /\ pulls' = pulls + 1
    /\ IF MoreToYield(buffer, idx)
       THEN /\ out' = Append(out, Yielded(buffer[idx + 1]))
            /\ idx' = idx + 1
            /\ UNCHANGED <<pc, cursor>>
       ELSE /\ idx' = idx
            /\ AfterPage(response, cursor)
    /\ UNCHANGED <<dataset_id, filters, filters0, sort, post_filters,
                   post_sort, response, buffer, requests, responses, outsideRun>>

\* the outcomes of next() calls made after the generator finished
ExtraPulls ==
    Cardinality({i \in 1..Len(out) :
                   \E j \in 1..(i - 1) : out[j].kind # "item"})

\* next() on a generator that has finished starts the listing over
NextFinished_rewinds ==
    /\ pc \in {"done", "failed"}
    /\ ExtraPulls < MaxExtraPulls
    /\ pulls' = pulls + 1
    /\ pc' = "fetching"
    /\ cursor' = InitialCursor
    /\ UNCHANGED <<dataset_id, filters, filters0, sort, post_filters,
                   post_sort, response, buffer, idx, requests, responses,
                   out, outsideRun>>

\* next() on a generator that has returned or raised: StopIteration
NextFinished ==
    /\ pc \in {"done", "failed"}
    /\ ExtraPulls < MaxExtraPulls
    /\ pulls' = pulls + 1
    /\ out' = Append(out, Stopped)
    /\ UNCHANGED <<dataset_id, filters, filters0, sort, pc, post_filters,
                   post_sort, cursor, response, buffer, idx, requests,
                   responses, outsideRun>>

\* the server answers the request with a page
FetchPage ==
    \E n \in 0..MaxPageLen, nx \in NextTokens(Len(requests) + 1) : FetchOk(n, nx)

\* fetch_remote_files is called with any of the inputs
CallAny == pc = "none" /\ \E f \in FilterInputs, s \in SortInputs : Call(f, s)

Next ==
    \/ CallAny
    \/ NextFirst
    \/ FetchPage
    \/ FetchError
    \/ NextResume
    \/ NextFinished

Spec == Init /\ [][Next]_vars

(***************************************************************************)
(* Two calls of fetch_remote_files on the same object.  Each call creates  *)
(* a generator with a frame of its own; the listing variables hold the     *)
(* frame of the generator that is running and `parked` that of the other.  *)
(***************************************************************************)
\* the frame of the generator the listing variables hold
Frame ==
    [filters |-> filters, filters0 |-> filters0, sort |-> sort, pc |-> pc,
     post_filters |-> post_filters, post_sort |-> post_sort,
     cursor |-> cursor, response |-> response, buffer |-> buffer,
     idx |-> idx, requests |-> requests, responses |-> responses,
     out |-> out, pulls |-> pulls]

\* the cursor is kept on the dataset object, not in the frame
Switch_cursorOnDataset ==
    /\ active' = 3 - active
    /\ parked' = Frame
    /\ filters' = IF shared THEN filters ELSE parked.filters
    /\ filters0' = parked.filters0
    /\ sort' = parked.sort
    /\ pc' = parked.pc
    /\ post_filters' = parked.post_filters
    /\ post_sort' = parked.post_sort
    /\ cursor' = cursor
    /\ response' = parked.response
    /\ buffer' = parked.buffer
    /\ idx' = parked.idx
    /\ requests' = parked.requests
    /\ responses' = parked.responses
    /\ out' = parked.out
    /\ pulls' = parked.pulls
    /\ UNCHANGED <<dataset_id, sent, calls, shared, drain, pushed>>

\* the other generator gets to run: the locals of lines 210-240 are those of
\* its frame; a dict object given to both calls is one object
Switch ==
    /\ active' = 3 - active
    /\ parked' = Frame
    /\ filters' = IF shared THEN filters ELSE parked.filters
    /\ filters0' = parked.filters0
    /\ sort' = parked.sort
    /\ pc' = parked.pc
    /\ post_filters' = parked.post_filters
    /\ post_sort' = parked.post_sort
    /\ cursor' = parked.cursor
    /\ response' = parked.response
    /\ buffer' = parked.buffer
    /\ idx' = parked.idx
    /\ requests' = parked.requests
    /\ responses' = parked.responses
    /\ out' = parked.out
    /\ pulls' = parked.pulls
    /\ UNCHANGED <<dataset_id, sent, calls, shared, drain, pushed>>

\* the arguments of the two calls
TwoFilterInputs ==
    {NoDict,
     SomeDict(("filenames" :> StrV("a")) @@ ("item_names" :> ListV(<<"b", "c">>))),
     SomeDict("statuses" :> ListV(<<"b", "c">>))}
TwoSortInputs == {NoneV, StrV("priority:descending")}

\* a call with arguments of its own
CallOwn ==
    /\ pc = "none"
    /\ \E f \in TwoFilterInputs, s \in TwoSortInputs : Call(f, s)

\* a call that is given the dict object the other call was given
CallShared ==
    /\ pc = "none"
    /\ parked.pc # "none"
    /\ ~parked.filters.none
    /\ \E s \in TwoSortInputs :
          /\ filters' = parked.filters
          /\ filters0' = parked.filters
          /\ sort' = s
    /\ shared' = TRUE
    /\ pc' = "created"
    /\ UNCHANGED <<dataset_id, post_filters, post_sort, cursor, response,
                   buffer, idx, requests, responses, out, pulls, sent, calls,
                   parked, active, drain, pushed>>

\* the tokens the server hands to the generator that is running
TokensOf(run, k) ==
    {NoneV, StrV("r" \o ToString(run) \o "t" \o ToString(k))}

\* the server answers the request of the running generator with a page of
\* one item
FetchPageTwo ==
    \E nx \in TokensOf(active, Len(requests) + 1) : FetchOk(1, nx)

NextTwo ==
    \/ CallOwn
    \/ CallShared
    \/ Switch
    \/ NextFirst
    \/ FetchPageTwo
    \/ FetchError
    \/ NextResume
    \/ NextFinished

SpecTwo == Init /\ [][NextTwo]_vars

(***************************************************************************)
(* A run whose consumer keeps calling next(), against a server that        *)
(* answers every request and whose chain of tokens ends.                   *)
(***************************************************************************)
LiveSortInputs == TwoSortInputs \cup {StrV("bogus")}

CallLive ==
    /\ pc = "none"
    /\ \E f \in TwoFilterInputs, s \in LiveSortInputs : Call(f, s)

\* the tokens of a chain of at most MaxRequests pages, which may hand out
\* the same token again
ChainTokens(k) == IF k >= MaxRequests THEN {NoneV} ELSE {NoneV, StrV("t")}

\* the server answers the request
FetchPageLive ==
    \E n \in 0..MaxPageLen, nx \in ChainTokens(Len(requests) + 1) : FetchOk(n, nx)

NextLive ==
    \/ CallLive
    \/ NextFirst
    \/ FetchPageLive
    \/ NextResume
    \/ NextFinished

\* the consumer keeps pulling and every request is answered
SpecLive ==
    /\ Init
    /\ [][NextLive]_vars
    /\ WF_vars(NextFirst)
    /\ WF_vars(NextResume)
    /\ WF_vars(FetchPageLive)

(***************************************************************************)
(* The batch commands, lines 242-304.                                      *)
(***************************************************************************)
\* the DatasetItems a caller may hand to a command
ItemPool == {[id |-> 1, filename |-> "a.png"], [id |-> 2, filename |-> "b.png"]}
ItemLists == UNION {[1..n -> ItemPool] : n \in 0..MaxItems}

\* [item.id for item in items]
ItemIds(items) == [i \in 1..Len(items) |-> items[i].id]

\* lines 251-253 and 265-267
FiltersPayload(items) ==
    [filters |-> [item_ids |-> ItemIds(items), dataset_ids |-> <<dataset_id>>]]

\* lines 279, 291 and 303
FilterPayload(items) ==
    [filter |-> [dataset_item_ids |-> ItemIds(items)]]

\* a call of a method of the client: which method, its positional and
\* keyword arguments other than the payload, and the payload
ClientCall(method, args, payload) ==
    [method |-> method, args |-> args, payload |-> payload]

\* history: the command, the items the caller gave it, the request it made
Command(kind, items, call) == [kind |-> kind, items |-> items, call |-> call]

cmdFrame ==
    UNCHANGED <<dataset_id, filters, filters0, sort, pc, post_filters,
                post_sort, cursor, response, buffer, idx, requests,
                responses, out, pulls, parked, active, shared, drain,
                pushed>>

\* an empty selection is taken as nothing to do and no request is made
Archive_unlessEmpty(items) ==
    /\ Len(sent) < MaxCommands
    /\ sent' = IF items = <<>>
               THEN sent
               ELSE Append(sent, Command("archive", items,
                      ClientCall("api_v2.archive_items", <<Team>>,
                                 FiltersPayload(items))))
    /\ calls' = calls + 1
    /\ cmdFrame

\* lines 251-254
Archive(items) ==
    /\ Len(sent) < MaxCommands
    /\ sent' = Append(sent, Command("archive", items,
                 ClientCall("api_v2.archive_items", <<Team>>,
                            FiltersPayload(items))))
    /\ calls' = calls + 1
    /\ cmdFrame

\* lines 265-268
RestoreArchived(items) ==
    /\ Len(sent) < MaxCommands
    /\ sent' = Append(sent, Command("restore_archived", items,
                 ClientCall("api_v2.restore_archived_items", <<Team>>,
                            FiltersPayload(items))))
    /\ calls' = calls + 1
    /\ cmdFrame

\* lines 279-280
MoveToNew(items) ==
    /\ Len(sent) < MaxCommands
    /\ sent' = Append(sent, Command("move_to_new", items,
                 ClientCall("move_item_to_new", <<Slug, Team>>,
                            FilterPayload(items))))
    /\ calls' = calls + 1
    /\ cmdFrame

\* reset goes to the endpoint of delete_items
Reset_asDelete(items) ==
    /\ Len(sent) < MaxCommands
    /\ sent' = Append(sent, Command("reset", items,
                 ClientCall("delete_item", <<Slug, Team>>,
                            FilterPayload(items))))
    /\ calls' = calls + 1
    /\ cmdFrame

\* lines 291-292
Reset(items) ==
    /\ Len(sent) < MaxCommands
    /\ sent' = Append(sent, Command("reset", items,
                 ClientCall("reset_item", <<Slug, Team>>,
                            FilterPayload(items))))
    /\ calls' = calls + 1
    /\ cmdFrame

\* lines 303-304
DeleteItems(items) ==
    /\ Len(sent) < MaxCommands
    /\ sent' = Append(sent, Command("delete_items", items,
                 ClientCall("delete_item", <<Slug, Team>>,
                            FilterPayload(items))))
    /\ calls' = calls + 1
    /\ cmdFrame

NextCmd ==
    \/ \E items \in ItemLists : Archive(items)
    \/ \E items \in ItemLists : RestoreArchived(items)
    \/ \E items \in ItemLists : MoveToNew(items)
    \/ \E items \in ItemLists : Reset(items)
    \/ \E items \in ItemLists : DeleteItems(items)

SpecCmd == Constructed /\ [][NextCmd]_vars

(***************************************************************************)
(* A batch command that is given the generator of fetch_remote_files as    *)
(* its items: the list comprehension of the payload is the consumer.       *)
(***************************************************************************)
\* the call made to get the generator that is handed to the command
CallForCommand ==
    /\ pc = "none"
    /\ \E f \in TwoFilterInputs, s \in TwoSortInputs : Call(f, s)

CommandKinds ==
    {"archive", "restore_archived", "move_to_new", "reset", "delete_items"}

\* the command is called with the fresh generator: the comprehension
\* [item.id for item in items] starts
BeginCommand ==
    /\ pc = "created"
    /\ drain = "none"
    /\ \E kind \in CommandKinds : drain' = kind
    /\ UNCHANGED <<dataset_id, filters, filters0, sort, pc, post_filters,
                   post_sort, cursor, response, buffer, idx, requests,
                   responses, out, pulls, sent, calls, parked, active, shared,
                   pushed>>

\* the comprehension asks for its first and for its next element
DrainFirst == drain # "none" /\ NextFirst
DrainResume == drain # "none" /\ NextResume

\* the items the comprehension has been given
Collected ==
    LET got == SelectSeq(out, LAMBDA o : o.kind = "item")
    IN  [i \in 1..Len(got) |-> got[i].item]

\* the comprehension also ends when the generator raises
Drained_orFailed == pc \in {"done", "failed"}

\* the comprehension ends when the generator is exhausted
Drained == pc = "done"

\* the comprehension has ended: the payload is complete and the request is
\* made
FinishCommand ==
    /\ Drained
    /\ sent = <<>>
    /\ \/ drain = "archive" /\ Archive(Collected)
       \/ drain = "restore_archived" /\ RestoreArchived(Collected)
       \/ drain = "move_to_new" /\ MoveToNew(Collected)
       \/ drain = "reset" /\ Reset(Collected)
       \/ drain = "delete_items" /\ DeleteItems(Collected)

NextDrain ==
    \/ CallForCommand
    \/ BeginCommand
    \/ DrainFirst
    \/ FetchPage
    \/ FetchError
    \/ DrainResume
    \/ FinishCommand

SpecDrain == Init /\ [][NextDrain]_vars

(***************************************************************************)
(* The claims about the listing.                                           *)
(***************************************************************************)
RECURSIVE Flatten(_)
Flatten(ss) == IF ss = <<>> THEN <<>> ELSE Head(ss) \o Flatten(Tail(ss))

IsPrefix(a, b) == Len(a) <= Len(b) /\ a = SubSeq(b, 1, Len(a))

\* the items the consumer has received, in the order it received them
Delivered ==
    LET got == SelectSeq(out, LAMBDA o : o.kind = "item")
    IN  [i \in 1..Len(got) |-> got[i].item]

\* the DatasetItems of the k-th page served
PageOf(k) ==
    [j \in 1..Len(responses[k].items) |-> ParseItem(responses[k].items[j])]

\* the concatenation of the first k pages served
PagesUpTo(k) == Flatten([i \in 1..k |-> PageOf(i)])

\* the pages served so far form a chain that ends: every page but the last
\* declares a non-null next token and the last declares next = null
ChainEnded ==
    /\ responses # <<>>
    /\ \A i \in 1..Len(responses) :
          /\ responses[i].ok
          /\ (responses[i].next = NoneV) <=> (i = Len(responses))

\* C1: whenever the pages served form a chain that ends with next = null and
\* the consumer has drained the sequence, the consumer has received exactly
\* the concatenation of the pages' items, in server order, and one request
\* was issued per page; before that, what it has received is a prefix of that
\* concatenation, so nothing is skipped or duplicated on the way.
C1_DrainYieldsEveryPage ==
    /\ IsPrefix(Delivered, PagesUpTo(Len(responses)))
    /\ (ChainEnded /\ pc = "done") =>
          /\ Delivered = PagesUpTo(Len(responses))
          /\ Len(requests) = Len(responses)
          /\ \A i \in 1..Len(out) : out[i].kind = "item" <=> i <= Len(Delivered)

C1_Witness ==
    /\ ChainEnded
    /\ pc = "done"
    /\ Len(responses) = 3
    /\ Len(responses[1].items) = 2
    /\ Len(responses[2].items) = 2
    /\ Len(responses[3].items) = 1
    /\ Len(Delivered) = 5

\* the response the run received last
LastResponse == responses[Len(responses)]

\* C2 as stated: the run stops only on a null token: it has returned only if
\* the last response declared next = null, and it makes no request after a
\* response that declared next = null.
C2_StopsOnlyOnNullToken ==
    /\ (pc = "done") => LastResponse.next = NoneV
    /\ (responses # <<>> /\ LastResponse.ok /\ LastResponse.next = NoneV)
          => pc # "fetching"

\* the values of page.next on which the loop ends: null and the empty token
EndTokens == {NoneV, StrV("")}

\* C2 amended: the run stops only on a token that is null or empty, whatever
\* the number of items of the page: it has returned only if the last response
\* declared such a token, it makes no request after such a response, and a
\* next() left unanswered after a response with any other token is waiting
\* for the request that carries that token.
C2_StopsOnlyOnNullOrEmptyToken ==
    /\ (pc = "done") => LastResponse.next \in EndTokens
    /\ (responses # <<>> /\ LastResponse.ok /\ LastResponse.next \in EndTokens)
          => pc # "fetching"
    /\ (responses # <<>> /\ LastResponse.ok /\ LastResponse.next \notin EndTokens
          /\ pulls > Len(out))
          => /\ pc = "fetching"
             /\ cursor["page[from]"] = LastResponse.next

C2_Witness ==
    /\ Len(requests) = 3
    /\ responses[1].items = <<>>
    /\ responses[1].next = StrV("t1")
    /\ Len(responses[2].items) = 1
    /\ responses[2].next = StrV("t2")
    /\ LastResponse.ok
    /\ LastResponse.next = NoneV
    /\ pc = "done"

\* the number of pages all of whose items the consumer has received
FullyConsumed ==
    Cardinality({k \in 1..Len(responses) :
                   responses[k].ok /\ Len(PagesUpTo(k)) <= Len(Delivered)})

\* C3: a request is issued only inside a next() of the consumer that has not
\* been answered yet, and only when the consumer has received every item of
\* every page served before; hence at most one page beyond the fully consumed
\* ones has been requested, and with no next() pending no request is made.
C3_NextPageOnlyOnDemand ==
    /\ [](Len(requests) <= FullyConsumed + 1)
    /\ [](pulls \in {Len(out), Len(out) + 1})
    /\ [][Len(requests') > Len(requests) =>
            /\ pulls = Len(out) + 1
            /\ pulls' >= pulls
            /\ Len(requests') = Len(requests) + 1
            /\ Delivered = PagesUpTo(Len(responses))]_vars
    /\ [][pulls' = pulls /\ pulls = Len(out) => requests' = requests]_vars

C3_Witness ==
    /\ Len(requests) = 2
    /\ pc = "suspended"
    /\ Len(responses[1].items) = 2
    /\ Len(responses[2].items) = 2
    /\ Len(Delivered) = 4

\* C4: when the request for page k fails, that next() raises the transport
\* error, the consumer keeps exactly the items of pages 1..k-1, in order, and
\* the failed request is the last request of the run: it is not repeated and
\* nothing is requested after it, however often the consumer pulls again.
C4_TransportErrorEndsRun ==
    \A k \in 1..Len(responses) :
        ~responses[k].ok =>
            /\ k = Len(responses)
            /\ Len(requests) = k
            /\ pc = "failed"
            /\ Delivered = PagesUpTo(k - 1)
            /\ Len(out) > Len(Delivered)
            /\ out[Len(Delivered) + 1] = Raised("TransportError")
            /\ \A i \in (Len(Delivered) + 2)..Len(out) : out[i] = Stopped

C4_Witness ==
    /\ pc = "failed"
    /\ Len(responses) = 2
    /\ ~responses[2].ok
    /\ Len(Delivered) = 2
    /\ Len(out) = 4

(***************************************************************************)
(* The claims about the normalisation of filters and sort.                 *)
(***************************************************************************)
\* the mapping the caller passed, as it was when it passed it
Given == IF filters0.none THEN EmptyDict ELSE filters0.d

\* the string form of a scalar, a list as it is
StringForm(v) == IF v.kind = "list" THEN v ELSE StrV(PyStr(v))

Params(i) == requests[i].params

\* C5: when the caller's mapping has `filenames`, with or without
\* `item_names`, every request carries as item_names the normalised value of
\* `filenames`, never the caller's own item_names value.
C5_FilenamesOverrideItemNames ==
    Has(Given, "filenames") =>
        \A i \in 1..Len(requests) :
            /\ Has(Params(i), "item_names")
            /\ Params(i)["item_names"] = StringForm(Given["filenames"])

C5_Witness ==
    /\ Has(Given, "filenames")
    /\ Has(Given, "item_names")
    /\ Given["filenames"] # Given["item_names"]
    /\ Len(requests) = 2

ListKeys == {"item_names", "statuses"}
StringKeys == {"path", "types"}

\* what a request must carry for the filter mapping d
ShapedPerKey(d, params) ==
    /\ \A k \in ListKeys \cap DOMAIN d :
          /\ Has(params, k)
          /\ d[k].kind = "list" => params[k] = d[k]
          /\ d[k].kind # "list" => params[k] = StrV(PyStr(d[k]))
    /\ \A k \in StringKeys \cap DOMAIN d :
          /\ Has(params, k)
          /\ params[k] = StrV(PyStr(d[k]))
    /\ \A k \in (ListKeys \cup StringKeys) \ DOMAIN d : ~Has(params, k)

\* C6 as stated: the caller's mapping itself decides, key by key, what every
\* request carries: a list under item_names or statuses unchanged, a scalar
\* there as its string form, path and types as one string, and no recognised
\* key that the mapping lacks.
C6_ShapePerKeyOfCallerMapping ==
    \A i \in 1..Len(requests) : ShapedPerKey(Given, Params(i))

\* the caller's mapping with the value of `filenames` standing for item_names
WithAlias(d) ==
    IF Has(d, "filenames") THEN ("item_names" :> d["filenames"]) @@ d ELSE d

\* C6 amended: the same, for the mapping in which the value of `filenames`,
\* when that key is present, stands for item_names.
C6_ShapePerKeyAfterAlias ==
    \A i \in 1..Len(requests) : ShapedPerKey(WithAlias(Given), Params(i))

C6_Witness ==
    /\ DOMAIN Given = {"statuses", "path"}
    /\ Given["statuses"].kind = "str"
    /\ Given["path"].kind = "list"
    /\ Len(requests) = 2
    /\ Params(2)["path"] = StrV("['b', 'c']")
    /\ Params(2)["statuses"] = StrV("a")

PageKeys == {"page[size]", "page[from]"}
SortKeys == {"sort[priority]", "sort[name]"}

\* C7: every request carries only item_names, statuses, path, types, at most
\* one sort parameter, page[size] and page[from]; no other key of the caller's
\* mapping, `filenames` included, is transmitted, and no such key makes the
\* run raise: the only validation error is that of an unresolvable sort.
C7_OnlyAllowListedKeysSent ==
    /\ \A i \in 1..Len(requests) :
          LET other == DOMAIN Params(i) \ (ListKeys \cup StringKeys \cup PageKeys)
          IN  /\ other \subseteq SortKeys
              /\ Cardinality(other) <= 1
    /\ \A i \in 1..Len(out) :
          out[i].kind = "raise" =>
              \/ out[i].exc = "TransportError"
              \/ out[i].exc = "ValueError" /\ sort.kind = "str"
                   /\ sort.s \notin DOMAIN SortTable

C7_Witness ==
    /\ DOMAIN Given = {"archived", "filenames"}
    /\ Len(requests) = 2
    /\ sort = StrV("priority:descending")
    /\ DOMAIN Params(2) =
          {"item_names", "sort[priority]", "page[size]", "page[from]"}

\* C8: once fetch_remote_files has been called, and whatever becomes of the
\* run, the mapping the caller passed has the keys and values it had at the
\* call.
C8_CallerMappingUntouched == (pc # "none") => filters = filters0

\* C9: a sort that was supplied (it is not None) and does not resolve makes
\* the first next() raise the validation error with no request issued; a sort
\* that resolves puts exactly one sort parameter on every request, named after
\* the field and holding the direction code.
C9_UnresolvableSortFailsFast ==
    /\ (sort # NoneV /\ ~SortResolves(sort) /\ pc \notin {"none", "created"}) =>
          /\ pc = "failed"
          /\ requests = <<>>
          /\ out[1] = Raised("ValueError")
    /\ (sort # NoneV /\ SortResolves(sort)) =>
          \A i \in 1..Len(requests) :
              /\ DOMAIN Params(i) \cap SortKeys = {SortKey(ParseSort(sort).field)}
              /\ Params(i)[SortKey(ParseSort(sort).field)]
                    = StrV(ParseSort(sort).direction)

(***************************************************************************)
(* The claims about the batch commands.                                    *)
(***************************************************************************)
\* the method of the client each command must call
EndpointOf ==
    [archive |-> "api_v2.archive_items",
     restore_archived |-> "api_v2.restore_archived_items",
     move_to_new |-> "move_item_to_new",
     reset |-> "reset_item",
     delete_items |-> "delete_item"]

IdsOf(items) == [i \in 1..Len(items) |-> items[i].id]

\* C10: the endpoint and the payload shape of a command follow from its kind
\* alone: archive and restore_archived send
\* {filters: {item_ids, dataset_ids: [dataset_id]}} to their own endpoints,
\* move_to_new, reset and delete_items send {filter: {dataset_item_ids}} to
\* theirs, and the id list is that of the given items whatever the kind.
C10_ShapeAndEndpointByKind ==
    \A i \in 1..Len(sent) :
        LET c == sent[i]
        IN  /\ c.kind \in DOMAIN EndpointOf
            /\ c.call.method = EndpointOf[c.kind]
            /\ IF c.kind \in {"archive", "restore_archived"}
               THEN /\ DOMAIN c.call.payload = {"filters"}
                    /\ DOMAIN c.call.payload.filters = {"item_ids", "dataset_ids"}
                    /\ c.call.payload.filters.item_ids = IdsOf(c.items)
                    /\ c.call.payload.filters.dataset_ids = <<dataset_id>>
               ELSE /\ DOMAIN c.call.payload = {"filter"}
                    /\ DOMAIN c.call.payload.filter = {"dataset_item_ids"}
                    /\ c.call.payload.filter.dataset_item_ids = IdsOf(c.items)

C10_Witness ==
    /\ Len(sent) = 2
    /\ sent[1].kind = "restore_archived"
    /\ sent[2].kind = "reset"
    /\ sent[1].items = sent[2].items
    /\ Len(sent[1].items) = 2
    /\ sent[1].call.payload.filters.item_ids
          = sent[2].call.payload.filter.dataset_item_ids

(***************************************************************************)
(* push, lines 101-189.  The file system, find_files, is_relative_to,      *)
(* LocalFile and the upload handler are collaborators of the module.       *)
(***************************************************************************)
\* a path is the sequence of its components
Files == << <<"a", "x.png">>, <<"a", "sub", "y.png">>, <<"b", "z.png">> >>

\* a LocalFile object
LocalFile(local_path, fps_, as_frames_, path_) ==
    [isLocalFile |-> TRUE, local_path |-> local_path, fps |-> fps_,
     as_frames |-> as_frames_, path |-> path_]

\* a PathLike entry of files_to_upload
PathEntry(p) ==
    [isLocalFile |-> FALSE, local_path |-> p, fps |-> 0, as_frames |-> FALSE,
     path |-> NoneV]

\* an optional list argument
NoList == [given |-> FALSE, l |-> <<>>]
SomeList(l) == [given |-> TRUE, l |-> l]

\* what the caller may put in files_to_upload: a LocalFile they built, two
\* nested directories, a directory of its own and an empty directory
Entries ==
    {LocalFile(<<"b", "z.png">>, 0, FALSE, NoneV), PathEntry(<<"a">>),
     PathEntry(<<"a", "sub">>), PathEntry(<<"b">>), PathEntry(<<"e">>)}

FileLists == UNION {[1..n -> Entries] : n \in 0..MaxFiles}

PushInputs ==
    [files_to_upload : {NoList} \cup {SomeList(l) : l \in FileLists},
     blocking : BOOLEAN,
     multi_threaded : BOOLEAN,
     fps : {0, 25},
     as_frames : BOOLEAN,
     files_to_exclude : {NoList, SomeList(<< <<"a", "sub">> >>)},
     path : {NoneV, StrV("dest")},
     preserve_folders : BOOLEAN,
     progress_callback : {NoneV, StrV("on_progress")},
     file_upload_callback : {NoneV, StrV("on_file")}]

\* is_relative_to(path, root)
IsRelativeTo(f, root) ==
    Len(root) <= Len(f) /\ SubSeq(f, 1, Len(root)) = root

\* find_files(roots, files_to_exclude=exclude): the files under each root,
\* root after root, without those under an excluded path
RECURSIVE FindFiles(_, _)
FindFiles(roots, exclude) ==
    IF roots = <<>>
    THEN <<>>
    ELSE SelectSeq(Files,
                   LAMBDA f : /\ IsRelativeTo(f, roots[1])
                              /\ \A i \in 1..Len(exclude) :
                                    ~IsRelativeTo(f, exclude[i]))
         \o FindFiles(Tail(roots), exclude)

\* Path.relative_to(root), Path.parent and str(Path)
RelativeTo(f, root) == SubSeq(f, Len(root) + 1, Len(f))
Parent(p) == IF p = <<>> THEN <<>> ELSE SubSeq(p, 1, Len(p) - 1)
RECURSIVE PathStr(_)
PathStr(p) ==
    IF p = <<>> THEN "."
    ELSE IF Len(p) = 1 THEN p[1]
    ELSE p[1] \o "/" \o PathStr(Tail(p))

\* lines 155-156
FilesToExclude(a) ==
    IF a.files_to_exclude.given THEN a.files_to_exclude.l ELSE <<>>

\* line 161
UploadingFiles(files) == SelectSeq(files, LAMBDA item : item.isLocalFile)

\* line 162
SearchFiles(files) ==
    LET raw == SelectSeq(files, LAMBDA item : ~item.isLocalFile)
    IN  [i \in 1..Len(raw) |-> raw[i].local_path]

\* only the path option counts as a generic parameter
GenericParametersSpecified_pathOnly(a) == a.path # NoneV

\* line 164
GenericParametersSpecified(a) ==
    a.path # NoneV \/ a.fps # 0 \/ a.as_frames # FALSE

\* line 171
SourceFiles(found_file, search_files) ==
    SelectSeq(search_files, LAMBDA source_file :
                              IsRelativeTo(found_file, source_file))

\* the last root that holds the file is taken
LocalPath_lastRoot(found_file, search_files, a) ==
    LET source_files == SourceFiles(found_file, search_files)
    IN  IF a.preserve_folders /\ source_files # <<>>
        THEN StrV(PathStr(Parent(RelativeTo(found_file,
                                            source_files[Len(source_files)]))))
        ELSE a.path

\* lines 169-173
LocalPath(found_file, search_files, a) ==
    LET source_files == SourceFiles(found_file, search_files)
    IN  IF a.preserve_folders /\ source_files # <<>>
        THEN StrV(PathStr(Parent(RelativeTo(found_file, source_files[1]))))
        ELSE a.path

\* lines 168-174: the LocalFile built for each file find_files returned
Discovered(a) ==
    LET search_files == SearchFiles(a.files_to_upload.l)
        found == FindFiles(search_files, FilesToExclude(a))
    IN  [i \in 1..Len(found) |->
           LocalFile(found[i], a.fps, a.as_frames,
                     LocalPath(found[i], search_files, a))]

\* the handler is created whatever the list holds
NothingToUpload_never(uploading_files) == FALSE

\* line 176
NothingToUpload(uploading_files) == uploading_files = <<>>

\* the upload always runs multi-threaded
UploadArgs_defaultThreads(a) ==
    [multi_threaded |-> TRUE,
     progress_callback |-> a.progress_callback,
     file_upload_callback |-> a.file_upload_callback]

\* lines 181-185
UploadArgs(a) ==
    [multi_threaded |-> a.multi_threaded,
     progress_callback |-> a.progress_callback,
     file_upload_callback |-> a.file_upload_callback]

PushRaises(a, exc, scans) ==
    pushed' = [NotPushed EXCEPT !.state = "raised", !.exc = exc,
                                !.args = <<a>>, !.scans = scans]

pushFrame ==
    UNCHANGED <<dataset_id, filters, filters0, sort, pc, post_filters,
                post_sort, cursor, response, buffer, idx, requests,
                responses, out, pulls, sent, calls, parked, active, shared,
                drain>>

\* lines 155-189, up to the return of a non-blocking call and up to the
\* call of handler.upload of a blocking one
Push(a) ==
    /\ pushed.state = "none"
    /\ IF ~a.files_to_upload.given
       THEN PushRaises(a, "No files or directory specified.", <<>>)
       ELSE LET uploading_files == UploadingFiles(a.files_to_upload.l)
                search_files == SearchFiles(a.files_to_upload.l)
                scan == [roots |-> search_files,
                         files_to_exclude |-> FilesToExclude(a)]
                final == uploading_files \o Discovered(a)
            IN  IF uploading_files # <<>> /\ GenericParametersSpecified(a)
                THEN PushRaises(a, "Cannot specify a path when uploading a LocalFile object.", <<>>)
                ELSE IF NothingToUpload(final)
                THEN PushRaises(a, "No files to upload, check your path, exclusion filters and resume flag", <<scan>>)
                ELSE pushed' =
                       [state |-> IF a.blocking THEN "uploading"
                                  ELSE "returned",
                        exc |-> "", args |-> <<a>>, scans |-> <<scan>>,
                        handlers |-> <<final>>,
                        prepares |-> IF a.blocking THEN 0 ELSE 1,
                        uploads |-> IF a.blocking THEN <<UploadArgs(a)>>
                                    ELSE <<>>,
                        upload_state |-> IF a.blocking THEN "running"
                                         ELSE "none"]
    /\ pushFrame

\* handler.upload returns, and push returns the handler (line 189)
UploadReturns ==
    /\ pushed.state = "uploading"
    /\ pushed' = [pushed EXCEPT !.state = "returned",
                                !.upload_state = "completed"]
    /\ pushFrame

\* handler.upload raises, and push with it
UploadRaises ==
    /\ pushed.state = "uploading"
    /\ pushed' = [pushed EXCEPT !.state = "raised", !.exc = "UploadError",
                                !.upload_state = "failed"]
    /\ pushFrame

\* push is called once, with any of the inputs
PushCall == pushed.state = "none" /\ \E a \in PushInputs : Push(a)

NextPush ==
    \/ PushCall
    \/ UploadReturns
    \/ UploadRaises

SpecPush == Init /\ [][NextPush]_vars

(***************************************************************************)
(* C11                                                                     *)
(***************************************************************************)
\* the id list a command request carries
SentIds(c) ==
    IF "filters" \in DOMAIN c.call.payload
    THEN c.call.payload.filters.item_ids
    ELSE c.call.payload.filter.dataset_item_ids

\* C11: every batch command call that returns has issued exactly one
\* request, for zero, one or several items alike; the id list of the request
\* has one entry per given item, the identity of that item, in the order
\* given, and nothing else of an item is in the payload.
C11_OneRequestPerCallIdsInOrder ==
    /\ Len(sent) = calls
    /\ \A i \in 1..Len(sent) :
          LET c == sent[i]
              ids == SentIds(c)
          IN  /\ Len(ids) = Len(c.items)
              /\ \A j \in 1..Len(ids) : ids[j] = c.items[j].id
              /\ \A j \in 1..Len(ids) : ids[j] \in Nat
              /\ IF "filters" \in DOMAIN c.call.payload
                 THEN /\ DOMAIN c.call.payload.filters \ {"item_ids"}
                            = {"dataset_ids"}
                      /\ c.call.payload.filters.dataset_ids \in Seq(DatasetIds)
                 ELSE DOMAIN c.call.payload.filter = {"dataset_item_ids"}

C11_Witness ==
    /\ calls = 2
    /\ Len(sent) = 2
    /\ sent[1].kind = "archive"
    /\ sent[1].items = <<>>
    /\ SentIds(sent[1]) = <<>>
    /\ sent[2].kind = "delete_items"
    /\ SentIds(sent[2]) = <<2, 1>>

(***************************************************************************)
(* C12 to C15: push                                                        *)
(***************************************************************************)
Pushed == pushed.state # "none"
Args == pushed.args[1]
HasLocalFile(a) ==
    a.files_to_upload.given
      /\ \E i \in 1..Len(a.files_to_upload.l) : a.files_to_upload.l[i].isLocalFile
OnlyRawPaths(a) ==
    a.files_to_upload.given
      /\ \A i \in 1..Len(a.files_to_upload.l) : ~a.files_to_upload.l[i].isLocalFile
GenericOptionSet(a) == a.path # NoneV \/ a.fps # 0 \/ a.as_frames
PathWithLocalFile == "Cannot specify a path when uploading a LocalFile object."

\* C12: a push whose file list holds at least one LocalFile while path is
\* not null, fps is not 0 or as_frames is true raises the validation error
\* and has scanned nothing, created no handler and called neither prepare
\* nor upload; with raw paths only the same options do not raise it.
C12_LocalFileWithGenericOptionRejected ==
    Pushed =>
      /\ (HasLocalFile(Args) /\ GenericOptionSet(Args)) =>
            /\ pushed.state = "raised"
            /\ pushed.exc = PathWithLocalFile
            /\ pushed.scans = <<>>
            /\ pushed.handlers = <<>>
            /\ pushed.prepares = 0
            /\ pushed.uploads = <<>>
      /\ OnlyRawPaths(Args) => pushed.exc # PathWithLocalFile

C12_Witness ==
    /\ pushed.state = "raised"
    /\ pushed.exc = PathWithLocalFile
    /\ Len(Args.files_to_upload.l) = 2
    /\ ~Args.files_to_upload.l[1].isLocalFile
    /\ Args.files_to_upload.l[2].isLocalFile
    /\ Args.path = NoneV
    /\ Args.fps = 0
    /\ Args.as_frames

NothingHandedOver ==
    /\ pushed.state = "raised"
    /\ pushed.handlers = <<>>
    /\ pushed.prepares = 0
    /\ pushed.uploads = <<>>

\* the files of the file system that lie under a raw path of the list and
\* under no excluded path
Expanded(a) ==
    {Files[k] : k \in {k \in 1..Len(Files) :
        /\ \E i \in 1..Len(a.files_to_upload.l) :
              /\ ~a.files_to_upload.l[i].isLocalFile
              /\ IsRelativeTo(Files[k], a.files_to_upload.l[i].local_path)
        /\ a.files_to_exclude.given =>
              \A j \in 1..Len(a.files_to_exclude.l) :
                  ~IsRelativeTo(Files[k], a.files_to_exclude.l[j])}}

NoFilesSpecified == "No files or directory specified."
NoFilesToUpload ==
    "No files to upload, check your path, exclusion filters and resume flag"

\* C13: push raises a validation error, with no handler created and neither
\* prepare nor upload called, when files_to_upload is absent and when nothing
\* is left to upload after expansion and exclusion (an empty list included);
\* a handler that is created has a non-empty file list.
C13_NothingToUploadRejected ==
    Pushed =>
      /\ ~Args.files_to_upload.given =>
            NothingHandedOver /\ pushed.exc = NoFilesSpecified
      /\ (OnlyRawPaths(Args) /\ Expanded(Args) = {}) =>
            NothingHandedOver /\ pushed.exc = NoFilesToUpload
      /\ \A i \in 1..Len(pushed.handlers) : pushed.handlers[i] # <<>>

C13_Witness ==
    /\ pushed.state = "raised"
    /\ pushed.exc = NoFilesToUpload
    /\ Args.files_to_upload.l = <<PathEntry(<<"a", "sub">>)>>
    /\ Args.files_to_exclude.given
    /\ pushed.scans # <<>>
    /\ pushed.handlers = <<>>

\* the raw paths of the list, in the caller's order
Roots(a) ==
    LET l == a.files_to_upload.l
        at == {i \in 1..Len(l) : ~l[i].isLocalFile}
    IN  [k \in 1..Cardinality(at) |->
           l[CHOOSE i \in at : Cardinality({j \in at : j <= i}) = k].local_path]

\* how many entries of the list are LocalFile objects of the caller
OwnLocalFiles(a) ==
    Cardinality({i \in 1..Len(a.files_to_upload.l) :
                   a.files_to_upload.l[i].isLocalFile})

\* C14: with preserve_folders, every file the scan found is given the
\* directory of its path relative to the first root, in the caller's order,
\* that contains it, whatever the global path is; without preserve_folders
\* it is given the global path.  The caller's own LocalFile objects are
\* handed over as they were.
C14_DestinationRelativeToFirstRoot ==
    \A h \in 1..Len(pushed.handlers) :
      LET files == pushed.handlers[h]
          roots == Roots(Args)
      IN  \A i \in 1..Len(files) :
            IF i <= OwnLocalFiles(Args)
            THEN files[i] \in Entries
            ELSE LET f == files[i].local_path
                     holding == {r \in 1..Len(roots) : IsRelativeTo(f, roots[r])}
                 IN  /\ holding # {}
                     /\ IF Args.preserve_folders
                        THEN \E r \in holding :
                               /\ \A q \in holding : r <= q
                               /\ files[i].path =
                                    StrV(PathStr(Parent(RelativeTo(f, roots[r]))))
                        ELSE files[i].path = Args.path

C14_Witness ==
    /\ pushed.state = "returned"
    /\ Args.preserve_folders
    /\ Args.path = StrV("dest")
    /\ Roots(Args) = << <<"a", "sub">>, <<"a">> >>
    /\ Len(pushed.handlers) = 1
    /\ Len(pushed.handlers[1]) = 3
    /\ pushed.handlers[1][1].local_path = <<"a", "sub", "y.png">>
    /\ pushed.handlers[1][1].path = StrV(".")
    /\ pushed.handlers[1][2].local_path = <<"a", "x.png">>
    /\ pushed.handlers[1][2].path = StrV(".")
    /\ pushed.handlers[1][3].local_path = <<"a", "sub", "y.png">>
    /\ pushed.handlers[1][3].path = StrV(".")

PassedValidation == pushed.handlers # <<>>

C15_OneHandlerOneCall ==
    PassedValidation =>
      /\ Len(pushed.handlers) = 1
      /\ pushed.handlers[1]
            = UploadingFiles(Args.files_to_upload.l) \o Discovered(Args)
      /\ IF Args.blocking
         THEN /\ Len(pushed.uploads) = 1
              /\ pushed.uploads[1].multi_threaded = Args.multi_threaded
              /\ pushed.uploads[1].progress_callback = Args.progress_callback
              /\ pushed.uploads[1].file_upload_callback
                    = Args.file_upload_callback
              /\ pushed.prepares = 0
              /\ pushed.state = "returned" <=> pushed.upload_state = "completed"
              /\ pushed.state = "uploading" <=> pushed.upload_state = "running"
              /\ pushed.state = "raised" <=> pushed.upload_state = "failed"
         ELSE /\ pushed.prepares = 1
              /\ pushed.uploads = <<>>
              /\ pushed.upload_state = "none"
              /\ pushed.state = "returned"

Criteria(params) == [k \in DOMAIN params \ PageKeys |-> params[k]]

\* C16: the first request of a run has page[size] = 500 and no page[from];
\* every later request has page[size] = 500 and, as page[from], the next
\* token of the response just before it, and the filter and sort parameters
\* of the first request.
C16_CursorFollowsLastToken ==
    \A i \in 1..Len(requests) :
        /\ "page[size]" \in DOMAIN Params(i)
        /\ Params(i)["page[size]"] = IntV(500)
        /\ Criteria(Params(i)) = Criteria(Params(1))
        /\ IF i = 1
           THEN "page[from]" \notin DOMAIN Params(i)
           ELSE /\ "page[from]" \in DOMAIN Params(i)
                /\ responses[i - 1].ok
                /\ Params(i)["page[from]"] = responses[i - 1].next

C16_Witness ==
    /\ Len(requests) = 3
    /\ responses[1].next = StrV("t1")
    /\ responses[2].next = StrV("t2")
    /\ Params(2)["page[from]"] = StrV("t1")
    /\ Params(3)["page[from]"] = StrV("t2")
    /\ DOMAIN Criteria(Params(3)) = {"statuses", "sort[priority]"}

(***************************************************************************)
(* C17                                                                     *)
(***************************************************************************)
\* the requests of the run of frame F are those of a run on its own: no
\* page[from] at first, then the token of its own previous response, and
\* throughout the normalised filters and sort of its own call
RunKeepsToItself(F) ==
    \A i \in 1..Len(F.requests) :
        LET params == F.requests[i].params
        IN  /\ Criteria(params)
                 = Merge(PostFilters(AliasFilters(F.filters0)),
                         IF SortRaises(F.sort) THEN EmptyDict
                         ELSE PostSort(F.sort))
            /\ IF i = 1
               THEN "page[from]" \notin DOMAIN params
               ELSE /\ "page[from]" \in DOMAIN params
                    /\ params["page[from]"] = F.responses[i - 1].next

\* C17: two runs started by two calls on the same object, their pulls
\* interleaved in any way, share no cursor state: the first request of each
\* has no page[from], a later request of each carries the token last
\* returned to that run, and the filter and sort parameters of each are
\* those of its own call.
C17_RunsShareNoCursor ==
    RunKeepsToItself(Frame) /\ RunKeepsToItself(parked)

C17_Witness ==
    /\ pc = "suspended"
    /\ parked.pc = "suspended"
    /\ Len(requests) = 2
    /\ Len(parked.requests) = 2
    /\ shared
    /\ sort # parked.sort
    /\ requests[2].params["page[from]"] # parked.requests[2].params["page[from]"]
    /\ "item_names" \in DOMAIN requests[2].params

(***************************************************************************)
(* C18                                                                     *)
(***************************************************************************)
Finished(F) == F.pc \in {"done", "failed"}

\* the items the consumer of the run of frame F has received
DeliveredOf(F) ==
    LET got == SelectSeq(F.out, LAMBDA o : o.kind = "item")
    IN  [i \in 1..Len(got) |-> got[i].item]

\* a run made by another call on the object, started or not, begins at the
\* first page
StartsAfresh(F) ==
    /\ F.requests # <<>> => "page[from]" \notin DOMAIN F.requests[1].params
    /\ DeliveredOf(F) # <<>> =>
          /\ F.responses[1].items # <<>>
          /\ DeliveredOf(F)[1] = ParseItem(F.responses[1].items[1])

\* C18: once a run has ended or failed, a pull on its generator delivers no
\* item, issues no request and leaves the generator finished; a finished
\* generator is not revived by what its consumer or another run does, and
\* items are delivered again only by the run of a fresh call, which begins
\* with a request without page[from].
C18_FinishedRunStaysFinished ==
    /\ [][(active' = active /\ Finished(Frame)) =>
            /\ pc' = pc
            /\ requests' = requests
            /\ Delivered' = Delivered
            /\ pulls' # pulls => out' = Append(out, Stopped)]_vars
    /\ [][(active' = active /\ Finished(parked)) => parked' = parked]_vars
    /\ [](Finished(parked) => StartsAfresh(Frame))
    /\ [](Finished(Frame) => StartsAfresh(parked))

C18_Witness ==
    /\ parked.pc = "done"
    /\ Len(parked.requests) = 2
    /\ Len(DeliveredOf(parked)) = 2
    /\ Cardinality({i \in 1..Len(parked.out) : parked.out[i] = Stopped}) = 2
    /\ filters0 = parked.filters0
    /\ sort = parked.sort
    /\ Len(requests) = 2
    /\ Delivered = DeliveredOf(parked)

(***************************************************************************)
(* C19                                                                     *)
(***************************************************************************)
\* the ids of the items of every page the server served, page after page
ServedIds ==
    LET ids(k) == [j \in 1..Len(responses[k].items) |-> responses[k].items[j].id]
    IN  Flatten([k \in 1..Len(responses) |-> ids(k)])

\* C19: a batch command given the generator drains it before it makes its
\* one request: no listing request follows the command request, the id list
\* holds the ids of every item of every page served, and when a listing
\* request fails no command request is made.
C19_CommandDrainsListingFirst ==
    /\ [](sent # <<>> =>
            /\ Len(sent) = 1
            /\ sent[1].kind = drain
            /\ pc = "done"
            /\ \A k \in 1..Len(responses) : responses[k].ok
            /\ SentIds(sent[1]) = ServedIds)
    /\ [](pc = "failed" => sent = <<>>)
    /\ [][sent # <<>> => (requests' = requests /\ sent' = sent)]_vars

C19_Witness ==
    /\ Len(sent) = 1
    /\ sent[1].kind = "move_to_new"
    /\ Len(requests) = 3
    /\ SentIds(sent[1]) = <<11, 12, 21, 31>>

\* a listing that fails on its third request, with items of two pages
\* already collected
C19_WitnessFailure ==
    /\ drain = "archive"
    /\ pc = "failed"
    /\ Len(requests) = 3
    /\ Len(Collected) = 3
    /\ sent = <<>>

(***************************************************************************)
(* C20                                                                     *)
(***************************************************************************)
\* the requests made are those the chain of tokens asks for: one per
\* response with a truthy token, and the one that got the last response
RequestsFollowChain ==
    /\ Len(requests) = Len(responses)
    /\ \A k \in 1..Len(responses) :
          Truthy(responses[k].next) <=> k < Len(responses)

\* C20: a run whose consumer keeps pulling, whose requests are all answered
\* and whose server ends its chain of tokens reaches Done; it has then made
\* one request per page of the chain, also when the server handed out the
\* same token twice.
C20_RunReachesDone ==
    /\ [](pc \in {"fetching", "suspended"} => <>(pc = "done"))
    /\ [](pc = "done" => RequestsFollowChain)

C20_Witness ==
    /\ pc = "done"
    /\ Len(requests) = MaxRequests
    /\ responses[1].next = StrV("t")
    /\ responses[2].next = StrV("t")
    /\ Params(2) = Params(3)

====
